---- MODULE Spec2Model ----
(***************************************************************************)
(* Model of the MLXR Python SDK transport layer                            *)
(* (sdks/python/mlxrunner): the error classifier (exceptions.py), the      *)
(* unary and streaming paths of BaseTransport and AsyncTransport           *)
(* (transport.py), and the life cycle of the generator a streaming call    *)
(* returns; the construction of a client, its target, default headers and  *)
(* close() (transport.py, client.py); and the request body the dialect     *)
(* operations build (openai_api.py, ollama_api.py), the typed results     *)
(* they return (types.py), and two streams in progress on one cooperative *)
(* client.                                                                 *)
(*                                                                         *)
(* Abstractions.                                                           *)
(*  - A body line is one of the strings of Lines; str.strip, str.startswith*)
(*    and json.loads are tabulated on them (TLC cannot index a string).    *)
(*  - A yielded event is [n, obj]: n the number of the body line it came   *)
(*    from, obj what json.loads returned, so order, loss and duplication   *)
(*    are visible.                                                         *)
(*  - httpx is the environment: client.request returns a response whose    *)
(*    content is loaded; client.stream returns one whose content is not    *)
(*    (Response.json() and Response.text then raise httpx.ResponseNotRead, *)
(*    a RuntimeError); iter_lines hands out every line of a chunk it has   *)
(*    already received without touching the network.                       *)
(*  - The file system is the environment: the socket path is missing or    *)
(*    has one of the access rights of SockStates, and may be removed.      *)
(*  - A parameter value of a dialect operation is its default or one other *)
(*    value, written as Python writes it.                                  *)
(***************************************************************************)
EXTENDS Integers, Sequences, FiniteSets, TLC

VARIABLES
    mode,     \* "blocking" (BaseTransport) or "cooperative" (AsyncTransport)
    client,   \* self.client: "open" or "closed"
    un,       \* the last unary call: its response and its result
    resp,     \* the daemon's opening response to the current streaming call
    body,     \* the body lines the daemon has produced for the current stream
    eof,      \* the daemon has ended the body
    st,       \* the generator returned by the current streaming call
    cls,      \* one application of raise_for_status: its arguments and result
    args,     \* the arguments the transport is constructed with
    sock,     \* the socket path on the file system: missing, or its access rights
    tr,       \* the transport object: its target, its default headers, its close() calls
    wire,     \* the last request handed to the httpx client
    rq,       \* one dialect operation: its parameters and the request body built
    pair      \* two streams in progress on one cooperative client, each with its own response

vars == <<mode, client, un, resp, body, eof, st, cls, args, sock, tr, wire, rq, pair>>

----------------------------------------------------------------------------
(* Bounds and input sets *)

MaxLines == 3
MaxCloses == 2

Modes == {"blocking", "cooperative"}

\* Status codes a daemon response may carry.
ErrStatuses == {400, 401, 403, 404, 418, 422, 429, 499, 500, 503, 599}
OkStatuses == {101, 200, 204, 299, 301, 399}
Statuses == OkStatuses \cup ErrStatuses
StreamStatuses == {200} \cup ErrStatuses

\* Shapes of a response body as response.json() / .get() see it.
\*   not_json      : not JSON at all
\*   obj_msg       : {"error": {"message": "..."}}
\*   obj_no_error  : {"detail": "..."}
\*   obj_err_nomsg : {"error": {"code": 1}}
\*   obj_err_str   : {"error": "boom"}
\*   list          : ["boom"]
Bodies == {"not_json", "obj_msg", "obj_no_error", "obj_err_nomsg", "obj_err_str", "list"}

\* Faults of the network below httpx.
Faults == {"timeout", "connect", "http"}

\* Body lines as response.iter_lines() delivers them.
Lines == {"  ", "data: {\"v\":1}", "data: {oops", "data: [DONE]", "{\"v\":1}", "{oops", ": ping"}

NoStatus == 0

----------------------------------------------------------------------------
(* exceptions.py *)

Exc(t, m, c, r) ==
    [kind |-> "error", type |-> t, message |-> m, status_code |-> c, response |-> r, value |-> "-"]

NoRaise == [kind |-> "none", type |-> "-", message |-> "-", status_code |-> NoStatus, response |-> "None", value |-> "-"]

Returned(v) == [kind |-> "value", type |-> "-", message |-> "-", status_code |-> NoStatus, response |-> "None", value |-> v]

StopIteration == [kind |-> "end", type |-> "-", message |-> "-", status_code |-> NoStatus, response |-> "None", value |-> "-"]

MLXRConnectionError(m) == Exc("MLXRConnectionError", m, NoStatus, "None")
MLXRTimeoutError(m) == Exc("MLXRTimeoutError", m, NoStatus, "None")
MLXRAPIError(m, c, r) == Exc("MLXRAPIError", m, c, r)
MLXRAuthenticationError(m) == Exc("MLXRAuthenticationError", m, 401, "None")
MLXRPermissionError(m) == Exc("MLXRPermissionError", m, 403, "None")
MLXRNotFoundError(m) == Exc("MLXRNotFoundError", m, 404, "None")
MLXRRateLimitError(m) == Exc("MLXRRateLimitError", m, 429, "None")
MLXRServerError(m) == Exc("MLXRServerError", m, 500, "None")
MLXRValidationError(m) == Exc("MLXRValidationError", m, 422, "None")
MLXRStreamError(m) == Exc("MLXRStreamError", m, NoStatus, "None")

\* The class statement of each exception: the base class it derives from.
Bases(t) ==
    CASE t = "MLXRError" -> "Exception"
      [] t \in {"MLXRConnectionError", "MLXRTimeoutError", "MLXRAPIError",
                "MLXRValidationError", "MLXRModelError", "MLXRStreamError"} -> "MLXRError"
      [] t \in {"MLXRAuthenticationError", "MLXRPermissionError", "MLXRNotFoundError",
                "MLXRRateLimitError", "MLXRServerError"} -> "MLXRAPIError"
      [] OTHER -> "Exception"

\* issubclass(t, c) along the chain of base classes.
RECURSIVE IsSubclass(_, _)
IsSubclass(t, c) ==
    IF t = c THEN TRUE
    ELSE IF t = "Exception" THEN FALSE
    ELSE IsSubclass(Bases(t), c)

\* An exception that is not of the SDK's family.
Foreign(t) == Exc(t, "-", NoStatus, "None")

\* A classifier whose server branch tests > 500.
raise_for_status_gt(status_code, message, response) ==
    IF status_code = 401 THEN MLXRAuthenticationError(message)
    ELSE IF status_code = 403 THEN MLXRPermissionError(message)
    ELSE IF status_code = 404 THEN MLXRNotFoundError(message)
    ELSE IF status_code = 422 THEN MLXRValidationError(message)
    ELSE IF status_code = 429 THEN MLXRRateLimitError(message)
    ELSE IF status_code > 500 THEN MLXRServerError(message)
    ELSE IF status_code >= 400 THEN MLXRAPIError(message, status_code, response)
    ELSE NoRaise

raise_for_status(status_code, message, response) ==
    IF status_code = 401 THEN MLXRAuthenticationError(message)
    ELSE IF status_code = 403 THEN MLXRPermissionError(message)
    ELSE IF status_code = 404 THEN MLXRNotFoundError(message)
    ELSE IF status_code = 422 THEN MLXRValidationError(message)
    ELSE IF status_code = 429 THEN MLXRRateLimitError(message)
    ELSE IF status_code >= 500 THEN MLXRServerError(message)
    ELSE IF status_code >= 400 THEN MLXRAPIError(message, status_code, response)
    ELSE NoRaise

----------------------------------------------------------------------------
(* httpx.Response as the transport uses it *)

\* What client.request returns: the body has been loaded.
LoadedResponse(status, b) == [status_code |-> status, body |-> b, read |-> TRUE]

\* What client.stream hands to the with block: the body has not been loaded.
StreamedResponse(status, b) == [status_code |-> status, body |-> b, read |-> FALSE]

\* response.json() succeeds: the content is loaded and is JSON.
JsonLoaded(r) == r.read /\ r.body # "not_json"

\* The exception response.json() raises when it does not succeed.
JsonFailure(r) == IF r.read THEN "json.JSONDecodeError" ELSE "httpx.ResponseNotRead"

\* error_data.get("error", {}).get("message", response.text) does not raise:
\* error_data is a dict and its "error", when present, is a dict.
GetChainOk(b) == b \in {"obj_msg", "obj_no_error", "obj_err_nomsg"}

\* The value of that expression.
GetChain(b) == IF b = "obj_msg" THEN "error.message" ELSE "response.text"

----------------------------------------------------------------------------
(* transport.py: the unary path *)

\* BaseTransport._request, lines 118-126: [exc, message, error_data].
SyncErrorInfo(r) ==
    IF JsonLoaded(r) /\ GetChainOk(r.body)
    THEN [exc |-> "", message |-> GetChain(r.body), error_data |-> r.body]
    ELSE IF r.read
         THEN [exc |-> "", message |-> "response.text", error_data |-> "None"]
         ELSE [exc |-> "httpx.ResponseNotRead", message |-> "-", error_data |-> "None"]

\* AsyncTransport._request, lines 288-296.
AsyncErrorInfo(r) ==
    IF JsonLoaded(r) /\ GetChainOk(r.body)
    THEN [exc |-> "", message |-> GetChain(r.body), error_data |-> r.body]
    ELSE IF r.read
         THEN [exc |-> "", message |-> "response.text", error_data |-> "None"]
         ELSE [exc |-> "httpx.ResponseNotRead", message |-> "-", error_data |-> "None"]

\* The except clauses of _request, lines 131-136.
SyncRequestFault(f) ==
    IF f = "timeout" THEN MLXRTimeoutError("Request timed out")
    ELSE IF f = "connect" THEN MLXRConnectionError("Failed to connect")
    ELSE MLXRConnectionError("HTTP error")

\* The except clauses of the async _request, lines 301-306.
AsyncRequestFault(f) ==
    IF f = "timeout" THEN MLXRTimeoutError("Request timed out")
    ELSE IF f = "connect" THEN MLXRConnectionError("Failed to connect")
    ELSE MLXRConnectionError("HTTP error")

\* A _request that sends the request again after a timeout.
SyncRequestRetry(cl, status, b, f) ==
    LET r == LoadedResponse(status, b)
        e == SyncErrorInfo(r)
    IN  IF cl = "closed" THEN [sent |-> 0, outcome |-> Foreign("RuntimeError")]
        ELSE IF f = "timeout" THEN [sent |-> 2, outcome |-> SyncRequestFault(f)]
        ELSE IF f # "none" THEN [sent |-> 1, outcome |-> SyncRequestFault(f)]
        ELSE IF r.status_code >= 400
             THEN [sent |-> 1,
                   outcome |-> IF e.exc # "" THEN Foreign(e.exc)
                               ELSE raise_for_status(r.status_code, e.message, e.error_data)]
        ELSE IF r.status_code = 204 THEN [sent |-> 1, outcome |-> Returned("{}")]
        ELSE IF JsonLoaded(r) THEN [sent |-> 1, outcome |-> Returned(r.body)]
        ELSE [sent |-> 1, outcome |-> Foreign(JsonFailure(r))]

\* BaseTransport._request: the number of requests issued and the outcome.
SyncRequest(cl, status, b, f) ==
    LET r == LoadedResponse(status, b)
        e == SyncErrorInfo(r)
    IN  IF cl = "closed" THEN [sent |-> 0, outcome |-> Foreign("RuntimeError")]
        ELSE IF f # "none" THEN [sent |-> 1, outcome |-> SyncRequestFault(f)]
        ELSE IF r.status_code >= 400
             THEN [sent |-> 1,
                   outcome |-> IF e.exc # "" THEN Foreign(e.exc)
                               ELSE raise_for_status(r.status_code, e.message, e.error_data)]
        ELSE IF r.status_code = 204 THEN [sent |-> 1, outcome |-> Returned("{}")]
        ELSE IF JsonLoaded(r) THEN [sent |-> 1, outcome |-> Returned(r.body)]
        ELSE [sent |-> 1, outcome |-> Foreign(JsonFailure(r))]

\* AsyncTransport._request.
AsyncRequest(cl, status, b, f) ==
    LET r == LoadedResponse(status, b)
        e == AsyncErrorInfo(r)
    IN  IF cl = "closed" THEN [sent |-> 0, outcome |-> Foreign("RuntimeError")]
        ELSE IF f # "none" THEN [sent |-> 1, outcome |-> AsyncRequestFault(f)]
        ELSE IF r.status_code >= 400
             THEN [sent |-> 1,
                   outcome |-> IF e.exc # "" THEN Foreign(e.exc)
                               ELSE raise_for_status(r.status_code, e.message, e.error_data)]
        ELSE IF r.status_code = 204 THEN [sent |-> 1, outcome |-> Returned("{}")]
        ELSE IF JsonLoaded(r) THEN [sent |-> 1, outcome |-> Returned(r.body)]
        ELSE [sent |-> 1, outcome |-> Foreign(JsonFailure(r))]

----------------------------------------------------------------------------
(* transport.py: the streaming path *)

\* Lines of a streamed generate response of the daemon: a payload with
\* done false, the final payload with its durations and counters, and a
\* final payload without them.
GenMore == "{\"model\":\"m\",\"created_at\":\"t\",\"response\":\"a\",\"done\":false}"
GenDone == "{\"model\":\"m\",\"created_at\":\"t\",\"response\":\"\",\"done\":true,\"total_duration\":5,\"eval_count\":2}"
GenDoneBare == "{\"model\":\"m\",\"created_at\":\"t\",\"response\":\"\",\"done\":true}"
GenLines == {GenMore, GenDone, GenDoneBare}

\* line.strip()
Strip(line) == IF line = "  " THEN "" ELSE line

\* line.startswith("data: ")
StartsWithData(line) == line \in {"data: {\"v\":1}", "data: {oops", "data: [DONE]"}

\* line[6:]
AfterData(line) ==
    IF line = "data: [DONE]" THEN "[DONE]"
    ELSE IF line = "data: {\"v\":1}" THEN "{\"v\":1}"
    ELSE "{oops"

\* line.startswith("{")
StartsWithBrace(line) == line \in {"{\"v\":1}", "{oops"} \cup GenLines

\* json.loads(text) does not raise json.JSONDecodeError.
JsonLoadsOk(text) == text \in {"{\"v\":1}"} \cup GenLines

\* json.loads(text), for a text it parses.
JsonLoads(text) ==
    IF text = GenMore
    THEN [model |-> "m", created_at |-> "t", response |-> "a", done |-> FALSE]
    ELSE IF text = GenDone
    THEN [model |-> "m", created_at |-> "t", response |-> "", done |-> TRUE,
          total_duration |-> 5, eval_count |-> 2]
    ELSE IF text = GenDoneBare
    THEN [model |-> "m", created_at |-> "t", response |-> "", done |-> TRUE]
    ELSE [v |-> 1]

\* The event yielded for body line n whose payload is text.
Event(n, text) == [n |-> n, obj |-> JsonLoads(text)]

\* The generator before its first step, as transport.stream returns it.
NoStream ==
    [gen |-> "none", consumer |-> "none", via |-> "none", pos |-> 0, chunkEnd |-> 0,
     events |-> <<>>, outcome |-> NoRaise, respOpen |-> FALSE, sent |-> 0, again |-> FALSE]

\* A generator that leaves the response open when it raises.
FinishedLeak(s, o) ==
    [s EXCEPT !.gen = "finished", !.outcome = o,
              !.respOpen = IF o.kind = "error" THEN @ ELSE FALSE]

\* The generator function has returned or raised o; the with block is left.
Finished(s, o) == [s EXCEPT !.gen = "finished", !.outcome = o, !.respOpen = FALSE]

\* The except clauses of _stream, lines 186-191.
SyncStreamFault(f) ==
    IF f = "timeout" THEN MLXRTimeoutError("Stream timed out")
    ELSE IF f = "connect" THEN MLXRConnectionError("Failed to connect")
    ELSE MLXRConnectionError("HTTP error")

\* The except clauses of the async _stream, lines 356-361.
AsyncStreamFault(f) ==
    IF f = "timeout" THEN MLXRTimeoutError("Stream timed out")
    ELSE IF f = "connect" THEN MLXRConnectionError("Failed to connect")
    ELSE MLXRConnectionError("HTTP error")

\* BaseTransport._stream, lines 155-161, on the response of client.stream:
\* what leaves the with block.
SyncStreamError(r) ==
    IF JsonLoaded(r) /\ GetChainOk(r.body)
    THEN raise_for_status(r.status_code, GetChain(r.body), "None")
    ELSE IF r.read
         THEN raise_for_status(r.status_code, "response.text", "None")
         ELSE Foreign("httpx.ResponseNotRead")

\* AsyncTransport._stream, lines 325-331.
AsyncStreamError(r) ==
    IF JsonLoaded(r) /\ GetChainOk(r.body)
    THEN raise_for_status(r.status_code, GetChain(r.body), "None")
    ELSE IF r.read
         THEN raise_for_status(r.status_code, "response.text", "None")
         ELSE Foreign("httpx.ResponseNotRead")

\* The body of the for loop of BaseTransport._stream, lines 164-184, run from
\* line i + 1 over the lines up to limit, until the loop yields, breaks, raises
\* or needs a line beyond limit.
RECURSIVE SyncScan(_, _, _)
SyncScan(lines, i, limit) ==
    IF i >= limit THEN [stop |-> "need", at |-> i]
    ELSE LET line == Strip(lines[i + 1]) IN
         IF line = "" THEN SyncScan(lines, i + 1, limit)
         ELSE IF StartsWithData(line)
              THEN IF AfterData(line) = "[DONE]" THEN [stop |-> "break", at |-> i + 1]
                   ELSE IF JsonLoadsOk(AfterData(line)) THEN [stop |-> "yield", at |-> i + 1]
                   ELSE SyncScan(lines, i + 1, limit)
         ELSE IF StartsWithBrace(line)
              THEN IF JsonLoadsOk(line) THEN [stop |-> "yield", at |-> i + 1]
                   ELSE [stop |-> "raise", at |-> i + 1]
         ELSE SyncScan(lines, i + 1, limit)

\* An async loop that raises on a malformed marker-prefixed payload instead of
\* skipping it.
RECURSIVE AsyncScanStrict(_, _, _)
AsyncScanStrict(lines, i, limit) ==
    IF i >= limit THEN [stop |-> "need", at |-> i]
    ELSE LET line == Strip(lines[i + 1]) IN
         IF line = "" THEN AsyncScanStrict(lines, i + 1, limit)
         ELSE IF StartsWithData(line)
              THEN IF AfterData(line) = "[DONE]" THEN [stop |-> "break", at |-> i + 1]
                   ELSE IF JsonLoadsOk(AfterData(line)) THEN [stop |-> "yield", at |-> i + 1]
                   ELSE [stop |-> "raise", at |-> i + 1]
         ELSE IF StartsWithBrace(line)
              THEN IF JsonLoadsOk(line) THEN [stop |-> "yield", at |-> i + 1]
                   ELSE [stop |-> "raise", at |-> i + 1]
         ELSE AsyncScanStrict(lines, i + 1, limit)

\* The same loop of AsyncTransport._stream, lines 334-354.
RECURSIVE AsyncScan(_, _, _)
AsyncScan(lines, i, limit) ==
    IF i >= limit THEN [stop |-> "need", at |-> i]
    ELSE LET line == Strip(lines[i + 1]) IN
         IF line = "" THEN AsyncScan(lines, i + 1, limit)
         ELSE IF StartsWithData(line)
              THEN IF AfterData(line) = "[DONE]" THEN [stop |-> "break", at |-> i + 1]
                   ELSE IF JsonLoadsOk(AfterData(line)) THEN [stop |-> "yield", at |-> i + 1]
                   ELSE AsyncScan(lines, i + 1, limit)
         ELSE IF StartsWithBrace(line)
              THEN IF JsonLoadsOk(line) THEN [stop |-> "yield", at |-> i + 1]
                   ELSE [stop |-> "raise", at |-> i + 1]
         ELSE AsyncScan(lines, i + 1, limit)

\* The payload text json.loads is given for a line that yields.
Payload(line) == IF StartsWithData(Strip(line)) THEN AfterData(Strip(line)) ELSE Strip(line)

\* The generator of BaseTransport._stream resumed inside its for loop: it runs
\* to its next yield, to its end or to an exception. lines is the body the
\* daemon has produced and end whether it has ended it; the lines up to
\* s.chunkEnd are in the chunk iter_lines holds, a line beyond it takes a read
\* of the connection, which fault f interrupts and a closed client fails, and
\* which otherwise brings every line produced so far. gen = "blocked": the
\* read waits for the daemon (or f finds no read to interrupt).
SyncResume(s, cl, lines, end, f) ==
    LET limit == IF cl = "closed" \/ f # "none" THEN s.chunkEnd ELSE Len(lines)
        sc == SyncScan(lines, s.pos, limit)
        chunk == IF sc.at > s.chunkEnd THEN Len(lines) ELSE s.chunkEnd
    IN  IF sc.stop = "yield"
        THEN IF f # "none" THEN [s EXCEPT !.gen = "blocked"]
             ELSE [s EXCEPT !.gen = "suspended", !.pos = sc.at, !.chunkEnd = chunk,
                            !.events = Append(@, Event(sc.at, Payload(lines[sc.at])))]
        ELSE IF sc.stop = "break"
        THEN IF f # "none" THEN [s EXCEPT !.gen = "blocked"]
             ELSE Finished([s EXCEPT !.pos = sc.at, !.chunkEnd = chunk], StopIteration)
        ELSE IF sc.stop = "raise"
        THEN IF f # "none" THEN [s EXCEPT !.gen = "blocked"]
             ELSE Finished([s EXCEPT !.pos = sc.at, !.chunkEnd = chunk],
                           MLXRStreamError("Failed to parse JSON"))
        ELSE IF cl = "closed"
        THEN Finished([s EXCEPT !.pos = sc.at], SyncStreamFault("http"))
        ELSE IF f # "none"
        THEN Finished([s EXCEPT !.pos = sc.at], SyncStreamFault(f))
        ELSE IF end
        THEN Finished([s EXCEPT !.pos = sc.at, !.chunkEnd = chunk], StopIteration)
        ELSE [s EXCEPT !.gen = "blocked"]

\* The same for the generator of AsyncTransport._stream.
AsyncResume(s, cl, lines, end, f) ==
    LET limit == IF cl = "closed" \/ f # "none" THEN s.chunkEnd ELSE Len(lines)
        sc == AsyncScan(lines, s.pos, limit)
        chunk == IF sc.at > s.chunkEnd THEN Len(lines) ELSE s.chunkEnd
    IN  IF sc.stop = "yield"
        THEN IF f # "none" THEN [s EXCEPT !.gen = "blocked"]
             ELSE [s EXCEPT !.gen = "suspended", !.pos = sc.at, !.chunkEnd = chunk,
                            !.events = Append(@, Event(sc.at, Payload(lines[sc.at])))]
        ELSE IF sc.stop = "break"
        THEN IF f # "none" THEN [s EXCEPT !.gen = "blocked"]
             ELSE Finished([s EXCEPT !.pos = sc.at, !.chunkEnd = chunk], StopIteration)
        ELSE IF sc.stop = "raise"
        THEN IF f # "none" THEN [s EXCEPT !.gen = "blocked"]
             ELSE Finished([s EXCEPT !.pos = sc.at, !.chunkEnd = chunk],
                           MLXRStreamError("Failed to parse JSON"))
        ELSE IF cl = "closed"
        THEN Finished([s EXCEPT !.pos = sc.at], AsyncStreamFault("http"))
        ELSE IF f # "none"
        THEN Finished([s EXCEPT !.pos = sc.at], AsyncStreamFault(f))
        ELSE IF end
        THEN Finished([s EXCEPT !.pos = sc.at, !.chunkEnd = chunk], StopIteration)
        ELSE [s EXCEPT !.gen = "blocked"]

\* The first step of the generator of BaseTransport._stream up to its for
\* loop, lines 147-161: client.stream issues the request, fault f interrupts
\* it, and the opening response (status, b) is checked.
SyncOpen(s, cl, status, b, f) ==
    IF cl = "closed" THEN Finished(s, Foreign("RuntimeError"))
    ELSE IF f # "none" THEN Finished([s EXCEPT !.sent = @ + 1], SyncStreamFault(f))
    ELSE IF status >= 400
    THEN Finished([s EXCEPT !.sent = @ + 1], SyncStreamError(StreamedResponse(status, b)))
    ELSE [s EXCEPT !.sent = @ + 1, !.respOpen = TRUE, !.gen = "running"]

\* The same for AsyncTransport._stream, lines 317-331.
AsyncOpen(s, cl, status, b, f) ==
    IF cl = "closed" THEN Finished(s, Foreign("RuntimeError"))
    ELSE IF f # "none" THEN Finished([s EXCEPT !.sent = @ + 1], AsyncStreamFault(f))
    ELSE IF status >= 400
    THEN Finished([s EXCEPT !.sent = @ + 1], AsyncStreamError(StreamedResponse(status, b)))
    ELSE [s EXCEPT !.sent = @ + 1, !.respOpen = TRUE, !.gen = "running"]

\* Two streaming calls on one client: each generator of _stream has its own
\* frame, and in it its own response, whose lines it reads.
Slots == 1..2
NoPair == [i \in Slots |-> [st |-> NoStream, body |-> <<>>, eof |-> FALSE]]

\* A streaming call that issues its request before it returns the sequence.
NewGeneratorEager(via) ==
    [NoStream EXCEPT !.gen = "created", !.consumer = "iterating", !.via = via,
                     !.sent = 1, !.respOpen = TRUE]

\* transport.stream(...) returns self._stream(...), and an adapter's create /
\* generate returns its _create_stream / _generate_stream(...): calling a
\* generator function makes the generator object and runs none of its body.
NewGenerator(via) ==
    [NoStream EXCEPT !.gen = "created", !.consumer = "iterating", !.via = via]

\* A sequence that starts over when it is iterated after its end.
ReiterateRestart(s) ==
    [s EXCEPT !.again = TRUE, !.gen = "created", !.consumer = "iterating", !.outcome = NoRaise]

\* next() on a sequence whose generator has returned, raised or been closed:
\* StopIteration / StopAsyncIteration, and no code of _stream runs.
Reiterate(s) == [s EXCEPT !.again = TRUE]

\* The transport of the client's mode.
Request(m, cl, status, b, f) ==
    IF m = "blocking" THEN SyncRequest(cl, status, b, f) ELSE AsyncRequest(cl, status, b, f)

OpenStream(m, s, cl, status, b, f) ==
    IF m = "blocking" THEN SyncOpen(s, cl, status, b, f) ELSE AsyncOpen(s, cl, status, b, f)

\* A decoder that, at the end of a body without a sentinel line, goes on
\* waiting for one.
ResumeAwaitSentinel(m, s, cl, lines, end, f) ==
    LET n == IF m = "blocking" THEN SyncResume(s, cl, lines, end, f)
             ELSE AsyncResume(s, cl, lines, end, f)
    IN  IF n.gen = "finished" /\ n.outcome = StopIteration /\ n.pos = Len(lines)
           /\ (lines = <<>> \/ lines[Len(lines)] # "data: [DONE]")
        THEN [s EXCEPT !.gen = "blocked"]
        ELSE n

Resume(m, s, cl, lines, end, f) ==
    IF m = "blocking" THEN SyncResume(s, cl, lines, end, f) ELSE AsyncResume(s, cl, lines, end, f)

\* close() / aclose() of the sequence the consumer holds, with the generator
\* suspended at its yield. GeneratorExit leaves the with block, except in
\* cooperative mode through the adapter's wrapping generator, which ends
\* without closing the transport's generator it iterates: that one is closed
\* when the event loop runs its finalizer.
CloseSequence(m, s) ==
    IF s.gen = "suspended" /\ m = "cooperative" /\ s.via = "adapter"
    THEN [s EXCEPT !.consumer = "closed"]
    ELSE Finished([s EXCEPT !.consumer = "closed"], s.outcome)

----------------------------------------------------------------------------
(* transport.py: construction *)

\* The truth value of an Optional[str] argument: None and "" are false.
Truthy(x) == x \notin {"None", ""}

DEFAULT_SOCKET_PATH == "~/Library/Application Support/MLXRunner/run/mlxrunner.sock"

\* States of the socket path on the file system.
SockStates == {"missing", "read_only", "write_only", "read_write"}

\* os.path.exists(socket_path); os.access(socket_path, os.R_OK | os.W_OK)
PathExists(s) == s # "missing"
PathAccess(s) == s = "read_write"

NoHeaders == [h \in {} |-> ""]

\* A header builder that attaches the header whatever the key is.
_build_headers_always(api_key) ==
    [h \in {"Authorization"} |-> "Bearer " \o api_key]

_build_headers(api_key) ==
    IF Truthy(api_key) THEN [h \in {"Authorization"} |-> "Bearer " \o api_key]
    ELSE NoHeaders

\* A check of the path's existence alone.
_check_socket_path_exists(s) ==
    IF ~PathExists(s) THEN MLXRConnectionError("Socket not found")
    ELSE NoRaise

\* What _check_socket_path raises for a path in state s.
_check_socket_path(s) ==
    IF ~PathExists(s) THEN MLXRConnectionError("Socket not found")
    ELSE IF ~PathAccess(s) THEN MLXRPermissionError("Permission denied for socket")
    ELSE NoRaise

NoTarget == [transport |-> "none", base_url |-> "None", uds |-> "None"]

\* No transport object: __init__ has not run, or has raised error.
NoTransport ==
    [state |-> "new", socket_path |-> "None", base_url |-> "None", headers |-> NoHeaders,
     target |-> NoTarget, error |-> NoRaise, closes |-> 0, closed |-> NoRaise]

\* httpx.Client(base_url=base_url, headers=headers, ...)
HttpClient(t, base_url, headers) ==
    [t EXCEPT !.state = "ready", !.headers = headers,
              !.target = [transport |-> "http", base_url |-> base_url, uds |-> "None"]]

\* httpx.Client(transport=HTTPTransport(uds=socket_path), base_url="http://localhost", ...)
UdsClient(t, socket_path, headers) ==
    [t EXCEPT !.state = "ready", !.headers = headers,
              !.target = [transport |-> "uds", base_url |-> "http://localhost", uds |-> socket_path]]

DEFAULT_HTTP_URL == "http://localhost:11434"

\* A constructor that turns to the default URL when the socket check fails.
BaseTransportInitFallback(a, s) ==
    LET socket_path == IF Truthy(a.socket_path) THEN a.socket_path ELSE DEFAULT_SOCKET_PATH
        self == [NoTransport EXCEPT !.socket_path = socket_path, !.base_url = a.base_url]
        headers == _build_headers(a.api_key)
    IN  IF Truthy(a.base_url) THEN HttpClient(self, a.base_url, headers)
        ELSE IF _check_socket_path(s).kind = "error"
        THEN HttpClient(self, DEFAULT_HTTP_URL, headers)
        ELSE UdsClient(self, socket_path, headers)

\* BaseTransport.__init__ with arguments a, the socket path being in state s.
BaseTransportInit(a, s) ==
    LET socket_path == IF Truthy(a.socket_path) THEN a.socket_path ELSE DEFAULT_SOCKET_PATH
        self == [NoTransport EXCEPT !.socket_path = socket_path, !.base_url = a.base_url]
        headers == _build_headers(a.api_key)
    IN  IF Truthy(a.base_url) THEN HttpClient(self, a.base_url, headers)
        ELSE IF _check_socket_path(s).kind = "error"
        THEN [NoTransport EXCEPT !.state = "failed", !.error = _check_socket_path(s)]
        ELSE UdsClient(self, socket_path, headers)

\* AsyncTransport.__init__.
AsyncTransportInit(a, s) ==
    LET socket_path == IF Truthy(a.socket_path) THEN a.socket_path ELSE DEFAULT_SOCKET_PATH
        self == [NoTransport EXCEPT !.socket_path = socket_path, !.base_url = a.base_url]
        headers == _build_headers(a.api_key)
    IN  IF Truthy(a.base_url) THEN HttpClient(self, a.base_url, headers)
        ELSE IF _check_socket_path(s).kind = "error"
        THEN [NoTransport EXCEPT !.state = "failed", !.error = _check_socket_path(s)]
        ELSE UdsClient(self, socket_path, headers)

TransportInit(m, a, s) ==
    IF m = "blocking" THEN BaseTransportInit(a, s) ELSE AsyncTransportInit(a, s)

\* No request has been handed to the httpx client.
NoWire == [seen |-> FALSE, headers |-> NoHeaders, target |-> NoTarget]

\* self.client.request(...) / self.client.stream(...): the request goes to the
\* client's target with the client's default headers.
Outbound(t) == [seen |-> TRUE, headers |-> t.headers, target |-> t.target]

\* The request of a call that issued sent requests, after the last one w.
Wire(t, w, sent) == IF sent > 0 THEN Outbound(t) ELSE w

\* A close() that refuses a client that is closed already.
TransportCloseOnce(t, cl) ==
    IF cl = "closed"
    THEN [client |-> "closed", tr |-> [t EXCEPT !.closes = @ + 1, !.closed = Foreign("RuntimeError")]]
    ELSE [client |-> "closed", tr |-> [t EXCEPT !.closes = @ + 1, !.closed = Returned("None")]]

\* transport.close(): self.client.close() / await self.client.aclose(), which
\* closes an open client and does nothing to a closed one. closes counts the
\* calls, closed is what the last one returned or raised.
TransportClose(t, cl) ==
    [client |-> "closed", tr |-> [t EXCEPT !.closes = @ + 1, !.closed = Returned("None")]]

----------------------------------------------------------------------------
(* The state machine *)

NoUnary == [done |-> FALSE, status |-> NoStatus, body |-> "None", fault |-> "none",
            sent |-> 0, outcome |-> NoRaise]

NoResp == [status |-> NoStatus, body |-> "None"]

NoCls == [status |-> NoStatus, message |-> "-", response |-> "None", done |-> FALSE,
          result |-> NoRaise]

NoCall == [transport |-> "none", endpoint |-> "none"]

\* usage: None
NoUsage == [present |-> FALSE, prompt_tokens |-> 0, completion_tokens |-> 0, total_tokens |-> 0]

\* No response body / no typed result of a unary operation.
NoReply == [choices |-> 0, usage |-> NoUsage]
NoResult == [returned |-> FALSE, choices |-> 0, usage |-> NoUsage]

NoRq == [done |-> FALSE, op |-> "none", params |-> <<>>, kwargs |-> <<>>, data |-> <<>>,
         call |-> NoCall, reply |-> NoReply, result |-> NoResult]

\* The arguments of a client of a daemon that listens on the network.
NetworkArgs == [socket_path |-> "None", base_url |-> "http://localhost:8080", api_key |-> "None"]

\* The daemon can answer: the target is the network, or the socket is there.
Reachable == tr.target.transport = "http" \/ PathAccess(sock)

Init ==
    /\ mode \in Modes
    /\ pair = NoPair
    /\ client = "open"
    /\ un = NoUnary
    /\ resp = NoResp
    /\ body = <<>>
    /\ eof = FALSE
    /\ st = NoStream
    /\ cls = NoCls
    /\ args = NetworkArgs
    /\ sock = "missing"
    /\ tr = TransportInit(mode, args, sock)
    /\ wire = NoWire
    /\ rq = NoRq

\* transport.get / post / delete: one unary call answered with (status, b).
UnaryCall(status, b) ==
    /\ tr.state = "ready"
    /\ Reachable
    /\ st.gen = "none"
    /\ LET q == Request(mode, client, status, b, "none")
       IN  /\ un' = [done |-> TRUE, status |-> status, body |-> b, fault |-> "none",
                     sent |-> q.sent, outcome |-> q.outcome]
           /\ wire' = Wire(tr, wire, q.sent)
    /\ UNCHANGED <<mode, client, resp, body, eof, st, cls, args, sock, tr, rq, pair>>

\* One unary call that fault f interrupts before a response arrives.
UnaryFault(f) ==
    /\ tr.state = "ready"
    /\ st.gen = "none"
    /\ client = "open"
    /\ LET q == Request(mode, client, NoStatus, "None", f)
       IN  /\ un' = [done |-> TRUE, status |-> NoStatus, body |-> "None", fault |-> f,
                     sent |-> q.sent, outcome |-> q.outcome]
           /\ wire' = Wire(tr, wire, q.sent)
    /\ UNCHANGED <<mode, client, resp, body, eof, st, cls, args, sock, tr, rq, pair>>

\* transport.stream(...), directly or inside an adapter's _create_stream /
\* _generate_stream: a generator is created; none of its code has run.
StreamCall(via) ==
    /\ tr.state = "ready"
    /\ st.gen = "none"
    /\ st' = NewGenerator(via)
    /\ un' = NoUnary
    /\ UNCHANGED <<mode, client, resp, body, eof, cls, args, sock, tr, wire, rq, pair>>

\* The consumer's first next(): the request is issued and answered with (status, b).
\* The body of a response that is not an error is the lines of body.
Open(status, b) ==
    /\ st.gen = "created"
    /\ st.consumer = "iterating"
    /\ Reachable
    /\ st' = OpenStream(mode, st, client, status, b, "none")
    /\ resp' = IF client = "closed" THEN resp
               ELSE [status |-> status, body |-> IF status >= 400 THEN b ELSE "None"]
    /\ wire' = Wire(tr, wire, st'.sent)
    /\ UNCHANGED <<mode, client, un, body, eof, cls, args, sock, tr, rq, pair>>

\* The consumer's first next(), interrupted by fault f before a response arrives.
OpenFault(f) ==
    /\ st.gen = "created"
    /\ st.consumer = "iterating"
    /\ client = "open"
    /\ st' = OpenStream(mode, st, client, NoStatus, "None", f)
    /\ wire' = Wire(tr, wire, st'.sent)
    /\ UNCHANGED <<mode, client, un, resp, body, eof, cls, args, sock, tr, rq, pair>>

\* A later next() of the consumer: the generator resumes after its yield.
Advance ==
    /\ st.gen = "suspended"
    /\ st.consumer = "iterating"
    /\ st' = [st EXCEPT !.gen = "running"]
    /\ UNCHANGED <<mode, client, un, resp, body, eof, cls, args, sock, tr, wire, rq, pair>>

\* The running generator reaches its next yield, its end or an exception.
Run(f) ==
    /\ st.gen = "running"
    /\ LET n == Resume(mode, st, client, body, eof, f)
       IN  /\ n.gen # "blocked"
           /\ st' = n
    /\ UNCHANGED <<mode, client, un, resp, body, eof, cls, args, sock, tr, wire, rq, pair>>

\* The daemon writes one more line of the body.
DaemonSend(line) ==
    /\ st.respOpen
    /\ client = "open"
    /\ ~eof
    /\ Len(body) < MaxLines
    /\ body' = Append(body, line)
    /\ UNCHANGED <<mode, client, un, resp, eof, st, cls, args, sock, tr, wire, rq, pair>>

\* The daemon ends the body.
DaemonEnd ==
    /\ st.respOpen
    /\ client = "open"
    /\ ~eof
    /\ eof' = TRUE
    /\ UNCHANGED <<mode, client, un, resp, body, st, cls, args, sock, tr, wire, rq, pair>>

\* The consumer stops iterating (break, return, or an exception of its own)
\* and keeps the sequence object.
Abandon ==
    /\ st.gen \in {"created", "suspended"}
    /\ st.consumer = "iterating"
    /\ st' = [st EXCEPT !.consumer = "left"]
    /\ UNCHANGED <<mode, client, un, resp, body, eof, cls, args, sock, tr, wire, rq, pair>>

\* The consumer closes the sequence explicitly.
GenClose ==
    /\ st.gen \in {"created", "suspended"}
    /\ st.consumer \in {"iterating", "left"}
    /\ st' = CloseSequence(mode, st)
    /\ UNCHANGED <<mode, client, un, resp, body, eof, cls, args, sock, tr, wire, rq, pair>>

\* The runtime finalizes a generator nothing iterates any more.
Finalize ==
    /\ st.gen \in {"created", "suspended"}
    /\ st.consumer \in {"left", "closed"}
    /\ st' = Finished(st, st.outcome)
    /\ UNCHANGED <<mode, client, un, resp, body, eof, cls, args, sock, tr, wire, rq, pair>>

\* The consumer iterates again a sequence that has ended or that it has closed.
IterateAgain ==
    /\ st.gen = "finished" \/ st.consumer = "closed"
    /\ st' = Reiterate(st)
    /\ UNCHANGED <<mode, client, un, resp, body, eof, cls, args, sock, tr, wire, rq, pair>>

\* transport.close() / MLXR.close(): self.client.close().
ClientClose ==
    /\ tr.state = "ready"
    /\ client = "open"
    /\ mode = "blocking" => st.gen # "running"
    /\ client' = TransportClose(tr, client).client
    /\ tr' = TransportClose(tr, client).tr
    /\ UNCHANGED <<mode, un, resp, body, eof, st, cls, args, sock, wire, rq, pair>>

\* The consumer drops a finished sequence; the client is free for the next call.
Drop ==
    /\ st.gen = "finished"
    /\ st' = NoStream
    /\ resp' = NoResp
    /\ body' = <<>>
    /\ eof' = FALSE
    /\ UNCHANGED <<mode, client, un, cls, args, sock, tr, wire, rq, pair>>

Next ==
    \/ \E status \in Statuses, b \in Bodies : UnaryCall(status, b)
    \/ \E f \in Faults : UnaryFault(f)
    \/ \E via \in {"transport", "adapter"} : StreamCall(via)
    \/ \E status \in StreamStatuses, b \in Bodies : Open(status, b)
    \/ \E f \in Faults : OpenFault(f)
    \/ Advance
    \/ \E f \in {"none", "timeout", "http"} : Run(f)
    \/ \E line \in Lines : DaemonSend(line)
    \/ DaemonEnd
    \/ Abandon
    \/ GenClose
    \/ Finalize
    \/ ClientClose
    \/ Drop

Spec == Init /\ [][Next]_vars

----------------------------------------------------------------------------
(* Streams that are iterated again after their end *)

NextAgain ==
    \/ \E via \in {"transport", "adapter"} : StreamCall(via)
    \/ \E status \in {200, 404} : Open(status, "obj_msg")
    \/ \E f \in Faults : OpenFault(f)
    \/ Advance
    \/ \E f \in {"none", "timeout"} : Run(f)
    \/ \E line \in {"data: {\"v\":1}", "data: [DONE]", "{oops"} : DaemonSend(line)
    \/ DaemonEnd
    \/ Abandon
    \/ GenClose
    \/ Finalize
    \/ IterateAgain
    \/ ClientClose
    \/ Drop

SpecAgain == Init /\ [][NextAgain]_vars

----------------------------------------------------------------------------
(* ollama_api.py, types.py: the typed chunks of a streamed generate *)

\* The fields of OllamaGenerateResponse without and with a default of None.
GenerateRequired == {"model", "created_at", "response", "done"}
GenerateOptional ==
    {"context", "total_duration", "load_duration", "prompt_eval_count",
     "prompt_eval_duration", "eval_count", "eval_duration"}

\* A model that sets every field the payload does not carry to zero.
OllamaGenerateResponseZeroed(d) ==
    IF GenerateRequired \subseteq DOMAIN d
    THEN [ok |-> TRUE,
          fields |-> [k \in (DOMAIN d \cap GenerateRequired) \cup GenerateOptional |->
                         IF k \in DOMAIN d THEN d[k] ELSE 0]]
    ELSE [ok |-> FALSE, fields |-> <<>>]

\* OllamaGenerateResponse(**d): the fields set from d (a key the model does
\* not declare is ignored, an optional field d lacks stays None); ok is FALSE
\* when pydantic raises ValidationError for a missing required field.
OllamaGenerateResponse(d) ==
    IF GenerateRequired \subseteq DOMAIN d
    THEN [ok |-> TRUE,
          fields |-> [k \in DOMAIN d \cap (GenerateRequired \cup GenerateOptional) |-> d[k]]]
    ELSE [ok |-> FALSE, fields |-> <<>>]

\* OllamaAPI._generate_stream over the events evs of transport.stream: one
\* chunk per event, up to the first event whose chunk cannot be built.
GenerateStream(evs) ==
    LET bad == {j \in 1..Len(evs) : ~OllamaGenerateResponse(evs[j].obj).ok}
        upto == IF bad = {} THEN Len(evs) ELSE (CHOOSE j \in bad : \A i \in bad : j <= i) - 1
    IN  [j \in 1..upto |-> [n |-> evs[j].n, chunk |-> OllamaGenerateResponse(evs[j].obj)]]

NextGenerate ==
    \/ StreamCall("adapter")
    \/ \E status \in {200, 500} : Open(status, "obj_msg")
    \/ Advance
    \/ Run("none")
    \/ \E line \in GenLines \cup {"{\"v\":1}", "  "} : DaemonSend(line)
    \/ DaemonEnd
    \/ Drop

SpecGenerate == Init /\ [][NextGenerate]_vars

----------------------------------------------------------------------------
(* Streams of finite bodies that are iterated to their end *)

NextFinite ==
    \/ \E via \in {"transport", "adapter"} : StreamCall(via)
    \/ \E status \in {200, 500} : Open(status, "obj_msg")
    \/ Advance
    \/ \E f \in {"none", "timeout"} : Run(f)
    \/ \E line \in {"data: {\"v\":1}", "data: [DONE]", "{\"v\":1}", "{oops", GenDone} :
          DaemonSend(line)
    \/ DaemonEnd
    \/ Drop

\* The consumer keeps iterating (for / async for takes its next step, and the
\* generator it resumed runs on when it can), and the body is finite (the
\* daemon ends it).
SpecFinite ==
    /\ Init
    /\ [][NextFinite]_vars
    /\ WF_vars(Advance)
    /\ WF_vars(Run("none"))
    /\ WF_vars(DaemonEnd)

----------------------------------------------------------------------------
(* Two streams in progress on one cooperative client *)

\* One response for both generators: each reads the lines of the first.
responseShared(i) == pair[1]

\* The response bound by `async with self.client.stream(...) as response` in
\* the frame of generator i.
response(i) == pair[i]

\* The lines the daemon writes to the response of stream i: an event stream
\* for the first, newline-delimited generate payloads for the second.
PairLines(i) == IF i = 1 THEN {"data: {\"v\":1}", "data: [DONE]"} ELSE {GenMore, GenDone}

InitPair ==
    /\ mode = "cooperative"
    /\ pair = NoPair
    /\ client = "open"
    /\ un = NoUnary
    /\ resp = NoResp
    /\ body = <<>>
    /\ eof = FALSE
    /\ st = NoStream
    /\ cls = NoCls
    /\ args = NetworkArgs
    /\ sock = "missing"
    /\ tr = TransportInit(mode, args, sock)
    /\ wire = NoWire
    /\ rq = NoRq

\* The streaming call of stream i: the first through the adapter
\* (chat.completions.create(stream=True)), the second on the transport.
PairVia(i) == IF i = 1 THEN "adapter" ELSE "transport"

PairCall(i) ==
    /\ tr.state = "ready"
    /\ pair[i].st.gen = "none"
    /\ pair' = [pair EXCEPT ![i].st = NewGenerator(PairVia(i))]
    /\ UNCHANGED <<mode, client, un, resp, body, eof, st, cls, args, sock, tr, wire, rq>>

\* The first `await anext()` of consumer i: the request is issued and
\* answered with status 200.
PairOpen(i) ==
    /\ pair[i].st.gen = "created"
    /\ Reachable
    /\ pair' = [pair EXCEPT ![i].st = AsyncOpen(@, client, 200, "None", "none")]
    /\ wire' = Wire(tr, wire, pair'[i].st.sent)
    /\ UNCHANGED <<mode, client, un, resp, body, eof, st, cls, args, sock, tr, rq>>

\* A later `await anext()` of consumer i.
PairAdvance(i) ==
    /\ pair[i].st.gen = "suspended"
    /\ pair' = [pair EXCEPT ![i].st.gen = "running"]
    /\ UNCHANGED <<mode, client, un, resp, body, eof, st, cls, args, sock, tr, wire, rq>>

\* Generator i runs to its next yield or its end over the lines of its response.
PairRun(i) ==
    /\ pair[i].st.gen = "running"
    /\ LET n == AsyncResume(pair[i].st, client, response(i).body, response(i).eof, "none")
       IN  /\ n.gen # "blocked"
           /\ pair' = [pair EXCEPT ![i].st = n]
    /\ UNCHANGED <<mode, client, un, resp, body, eof, st, cls, args, sock, tr, wire, rq>>

\* The daemon writes one more line to the response of stream i.
PairSend(i, line) ==
    /\ pair[i].st.respOpen
    /\ ~pair[i].eof
    /\ Len(pair[i].body) < MaxLines
    /\ pair' = [pair EXCEPT ![i].body = Append(@, line)]
    /\ UNCHANGED <<mode, client, un, resp, body, eof, st, cls, args, sock, tr, wire, rq>>

\* The daemon ends the body of the response of stream i.
PairEnd(i) ==
    /\ pair[i].st.respOpen
    /\ ~pair[i].eof
    /\ pair' = [pair EXCEPT ![i].eof = TRUE]
    /\ UNCHANGED <<mode, client, un, resp, body, eof, st, cls, args, sock, tr, wire, rq>>

NextPair ==
    \/ \E i \in Slots : PairCall(i)
    \/ \E i \in Slots : PairOpen(i)
    \/ \E i \in Slots : PairAdvance(i)
    \/ \E i \in Slots : PairRun(i)
    \/ \E i \in Slots : \E line \in PairLines(i) : PairSend(i, line)
    \/ \E i \in Slots : PairEnd(i)

SpecPair == InitPair /\ [][NextPair]_vars

----------------------------------------------------------------------------
(* The classifier alone *)

InitClassify ==
    /\ mode = "blocking"
    /\ pair = NoPair
    /\ client = "open"
    /\ un = NoUnary
    /\ resp = NoResp
    /\ body = <<>>
    /\ eof = FALSE
    /\ st = NoStream
    /\ args = NetworkArgs
    /\ sock = "missing"
    /\ tr = TransportInit(mode, args, sock)
    /\ wire = NoWire
    /\ rq = NoRq
    /\ \E status \in Statuses, m \in {"error.message", "response.text"},
          r \in {"None", "obj_msg", "obj_no_error"} :
          cls = [status |-> status, message |-> m, response |-> r, done |-> FALSE,
                 result |-> NoRaise]

\* raise_for_status(status, message, response) is applied.
Classify ==
    /\ ~cls.done
    /\ cls' = [cls EXCEPT !.done = TRUE,
                          !.result = raise_for_status(cls.status, cls.message, cls.response)]
    /\ UNCHANGED <<mode, client, un, resp, body, eof, st, args, sock, tr, wire, rq, pair>>

SpecClassify == InitClassify /\ [][Classify]_vars

----------------------------------------------------------------------------
(* Construction, target, default headers and close() of a client *)

ArgSets ==
    [socket_path : {"None", "/run/mlxr.sock"},
     base_url : {"None", "", "http://host:8080"},
     api_key : {"None", "", "sk-1"}]

InitClient ==
    /\ mode \in Modes
    /\ pair = NoPair
    /\ client = "none"
    /\ un = NoUnary
    /\ resp = NoResp
    /\ body = <<>>
    /\ eof = FALSE
    /\ st = NoStream
    /\ cls = NoCls
    /\ args \in ArgSets
    /\ sock \in SockStates
    /\ tr = NoTransport
    /\ wire = NoWire
    /\ rq = NoRq

\* MLXR(...) / AsyncMLXR(...) / BaseTransport(...) / AsyncTransport(...): the
\* constructor runs; it returns a transport with an open httpx client or raises.
Construct ==
    /\ tr.state = "new"
    /\ tr' = TransportInit(mode, args, sock)
    /\ client' = IF tr'.state = "ready" THEN "open" ELSE client
    /\ UNCHANGED <<mode, un, resp, body, eof, st, cls, args, sock, wire, rq, pair>>

\* The socket file is removed (the daemon stops).
SockRemoved ==
    /\ sock # "missing"
    /\ sock' = "missing"
    /\ UNCHANGED <<mode, client, un, resp, body, eof, st, cls, args, tr, wire, rq, pair>>

\* close() of a transport that has been closed before.
CloseAgain ==
    /\ tr.state = "ready"
    /\ client = "closed"
    /\ tr.closes < MaxCloses
    /\ client' = TransportClose(tr, client).client
    /\ tr' = TransportClose(tr, client).tr
    /\ UNCHANGED <<mode, un, resp, body, eof, st, cls, args, sock, wire, rq, pair>>

NextClient ==
    \/ Construct
    \/ SockRemoved
    \/ \E status \in {200, 403} : UnaryCall(status, "obj_msg")
    \/ \E f \in Faults : UnaryFault(f)
    \/ StreamCall("transport")
    \/ \E status \in {200, 403} : Open(status, "obj_msg")
    \/ \E f \in Faults : OpenFault(f)
    \/ Run("timeout")
    \/ GenClose
    \/ ClientClose
    \/ CloseAgain
    \/ Drop

SpecClient == InitClient /\ [][NextClient]_vars

----------------------------------------------------------------------------
(* openai_api.py, ollama_api.py: the request body of a dialect operation *)

\* Parameter values are written as Python writes them.
Ops ==
    {"chat.completions.create", "completions.create", "embeddings.create", "ollama.generate",
     "ollama.chat", "ollama.embeddings", "ollama.pull", "ollama.create"}

\* The parameters without a default.
Required(op) ==
    IF op = "chat.completions.create" THEN {"model", "messages"}
    ELSE IF op = "completions.create" THEN {"model", "prompt"}
    ELSE IF op = "embeddings.create" THEN {"model", "input"}
    ELSE IF op = "ollama.generate" THEN {"model", "prompt"}
    ELSE IF op = "ollama.chat" THEN {"model", "messages"}
    ELSE IF op = "ollama.embeddings" THEN {"model", "prompt"}
    ELSE IF op = "ollama.pull" THEN {"name"}
    ELSE {"name", "modelfile"}

\* The named parameters with a default.
Optional(op) ==
    IF op = "chat.completions.create"
    THEN {"temperature", "top_p", "n", "stream", "stop", "max_tokens", "presence_penalty",
          "frequency_penalty", "logit_bias", "user"}
    ELSE IF op = "completions.create"
    THEN {"temperature", "top_p", "n", "stream", "stop", "max_tokens", "presence_penalty",
          "frequency_penalty", "logit_bias", "user", "logprobs", "echo", "best_of"}
    ELSE IF op = "embeddings.create" THEN {"user"}
    ELSE IF op = "ollama.generate"
    THEN {"images", "format", "options", "system", "template", "context", "stream", "raw",
          "keep_alive"}
    ELSE IF op = "ollama.chat" THEN {"format", "options", "stream", "keep_alive"}
    ELSE IF op = "ollama.embeddings" THEN {"options", "keep_alive"}
    ELSE IF op = "ollama.pull" THEN {"insecure", "stream"}
    ELSE {"stream", "path"}

\* The default of a parameter in the signature.
Default(k) ==
    IF k = "temperature" THEN "0.7"
    ELSE IF k = "top_p" THEN "1.0"
    ELSE IF k = "n" THEN "1"
    ELSE IF k \in {"presence_penalty", "frequency_penalty"} THEN "0.0"
    ELSE IF k \in {"stream", "echo", "raw", "insecure"} THEN "False"
    ELSE "None"

\* A value of the parameter other than its default.
Other(k) ==
    IF k = "temperature" THEN "0.2"
    ELSE IF k = "top_p" THEN "0.9"
    ELSE IF k = "n" THEN "2"
    ELSE IF k = "presence_penalty" THEN "0.5"
    ELSE IF k = "frequency_penalty" THEN "-0.5"
    ELSE IF k \in {"stream", "echo", "raw", "insecure"} THEN "True"
    ELSE IF k \in {"max_tokens", "logprobs", "best_of"} THEN "16"
    ELSE "x"

\* request_data restricted to keys.
Fields(p, keys) == [k \in keys |-> p[k]]

\* ChatCompletions.create / AsyncChatCompletions.create: request_data.
ChatCompletionsData(p) ==
    Fields(p, {"model", "messages", "temperature", "top_p", "n", "stream"}
              \cup {k \in {"stop", "max_tokens", "logit_bias", "user"} : p[k] # "None"}
              \cup {k \in {"presence_penalty", "frequency_penalty"} : p[k] # "0.0"})

\* Completions.create / AsyncCompletions.create: request_data.
CompletionsData(p) ==
    Fields(p, {"model", "prompt", "temperature", "top_p", "n", "stream"}
              \cup {k \in {"stop", "max_tokens", "logit_bias", "user", "logprobs", "best_of"} :
                       p[k] # "None"}
              \cup {k \in {"presence_penalty", "frequency_penalty"} : p[k] # "0.0"}
              \cup {k \in {"echo"} : p[k] = "True"})

\* OllamaAPI.generate / AsyncOllamaAPI.generate: request_data.
GenerateData(p) ==
    Fields(p, {"model", "prompt", "stream", "raw"}
              \cup {k \in {"images", "format", "options", "system", "template", "context",
                           "keep_alive"} : p[k] # "None"})

\* OllamaAPI.pull / AsyncOllamaAPI.pull: request_data.
PullData(p) == Fields(p, {"name", "insecure", "stream"})

\* Embeddings.create / AsyncEmbeddings.create: request_data.
EmbeddingsData(p) ==
    Fields(p, {"model", "input"} \cup {k \in {"user"} : p[k] # "None"})

\* OllamaAPI.chat / AsyncOllamaAPI.chat: request_data.
OllamaChatData(p) ==
    Fields(p, {"model", "messages", "stream"}
              \cup {k \in {"format", "options", "keep_alive"} : p[k] # "None"})

\* OllamaAPI.embeddings / AsyncOllamaAPI.embeddings: request_data.
OllamaEmbeddingsData(p) ==
    Fields(p, {"model", "prompt"} \cup {k \in {"options", "keep_alive"} : p[k] # "None"})

\* OllamaAPI.create / AsyncOllamaAPI.create: request_data.
OllamaCreateData(p) ==
    Fields(p, {"name", "modelfile", "stream"} \cup {k \in {"path"} : p[k] # "None"})

\* request_data |= kwargs / request_data.update(kwargs)
Update(data, kw) ==
    [k \in DOMAIN data \cup DOMAIN kw |-> IF k \in DOMAIN kw THEN kw[k] ELSE data[k]]

RequestData(op, p) ==
    IF op = "chat.completions.create" THEN ChatCompletionsData(p)
    ELSE IF op = "completions.create" THEN CompletionsData(p)
    ELSE IF op = "embeddings.create" THEN EmbeddingsData(p)
    ELSE IF op = "ollama.generate" THEN GenerateData(p)
    ELSE IF op = "ollama.chat" THEN OllamaChatData(p)
    ELSE IF op = "ollama.embeddings" THEN OllamaEmbeddingsData(p)
    ELSE IF op = "ollama.pull" THEN PullData(p)
    ELSE OllamaCreateData(p)

\* The **kwargs a call may pass: none, or one parameter the signature does
\* not name.
NoKwargs == [k \in {} |-> ""]
KwargSets(op) ==
    IF "stream" \in Optional(op) THEN {NoKwargs, [k \in {"seed"} |-> "16"]}
    ELSE {NoKwargs, [k \in {"stream"} |-> "True"]}

\* The transport method an operation calls and the path it passes.
Post(endpoint) == [transport |-> "post", endpoint |-> endpoint]
Stream(endpoint) == [transport |-> "stream", endpoint |-> endpoint]

\* An operation that looks for the stream flag in the body it has built.
DispatchOnBody(op, p, data) ==
    LET flag == "stream" \in DOMAIN data /\ data["stream"] = "True" IN
    IF op = "chat.completions.create"
    THEN IF flag THEN Stream("/v1/chat/completions") ELSE Post("/v1/chat/completions")
    ELSE IF op = "completions.create"
    THEN IF flag THEN Stream("/v1/completions") ELSE Post("/v1/completions")
    ELSE IF op = "embeddings.create"
    THEN IF flag THEN Stream("/v1/embeddings") ELSE Post("/v1/embeddings")
    ELSE IF op = "ollama.generate"
    THEN IF flag THEN Stream("/api/generate") ELSE Post("/api/generate")
    ELSE IF op = "ollama.chat"
    THEN IF flag THEN Stream("/api/chat") ELSE Post("/api/chat")
    ELSE IF op = "ollama.embeddings"
    THEN IF flag THEN Stream("/api/embeddings") ELSE Post("/api/embeddings")
    ELSE IF op = "ollama.pull"
    THEN IF flag THEN Stream("/api/pull") ELSE Post("/api/pull")
    ELSE IF flag THEN Stream("/api/create") ELSE Post("/api/create")

\* `if stream: return self._x_stream(request_data) else: return self._x(request_data)`
\* of each operation, with the paths of _x_stream and _x; the embeddings
\* operations post unconditionally.
Dispatch(op, p, data) ==
    IF op = "chat.completions.create"
    THEN IF p["stream"] = "True" THEN Stream("/v1/chat/completions")
         ELSE Post("/v1/chat/completions")
    ELSE IF op = "completions.create"
    THEN IF p["stream"] = "True" THEN Stream("/v1/completions") ELSE Post("/v1/completions")
    ELSE IF op = "embeddings.create" THEN Post("/v1/embeddings")
    ELSE IF op = "ollama.generate"
    THEN IF p["stream"] = "True" THEN Stream("/api/generate") ELSE Post("/api/generate")
    ELSE IF op = "ollama.chat"
    THEN IF p["stream"] = "True" THEN Stream("/api/chat") ELSE Post("/api/chat")
    ELSE IF op = "ollama.embeddings" THEN Post("/api/embeddings")
    ELSE IF op = "ollama.pull"
    THEN IF p["stream"] = "True" THEN Stream("/api/pull") ELSE Post("/api/pull")
    ELSE IF p["stream"] = "True" THEN Stream("/api/create") ELSE Post("/api/create")

InitBuild ==
    /\ mode \in Modes
    /\ pair = NoPair
    /\ client = "open"
    /\ un = NoUnary
    /\ resp = NoResp
    /\ body = <<>>
    /\ eof = FALSE
    /\ st = NoStream
    /\ cls = NoCls
    /\ args = NetworkArgs
    /\ sock = "missing"
    /\ tr = TransportInit(mode, args, sock)
    /\ wire = NoWire
    /\ \E op \in Ops : \E nd \in SUBSET Optional(op), kw \in KwargSets(op) :
          rq = [done |-> FALSE, op |-> op, data |-> <<>>, kwargs |-> kw, call |-> NoCall,
                reply |-> NoReply, result |-> NoResult,
                params |-> [k \in Required(op) \cup Optional(op) |->
                               IF k \in Required(op) THEN "r"
                               ELSE IF k \in nd THEN Other(k) ELSE Default(k)]]

\* The operation builds request_data from its parameters and calls the
\* transport with it.
Build ==
    /\ ~rq.done
    /\ LET data == Update(RequestData(rq.op, rq.params), rq.kwargs)
       IN  rq' = [rq EXCEPT !.done = TRUE, !.data = data,
                            !.call = Dispatch(rq.op, rq.params, data)]
    /\ UNCHANGED <<mode, client, un, resp, body, eof, st, cls, args, sock, tr, wire, pair>>

SpecBuild == InitBuild /\ [][Build]_vars

----------------------------------------------------------------------------
(* openai_api.py, types.py: the typed result of a unary chat completion *)

\* Token counts the daemon may report.
TokenCounts == {0, 5, 10}
TotalCounts == {0, 5, 10, 15, 16, 20}

\* The usage objects of a response body, and the bodies.
Usages ==
    [present : {TRUE}, prompt_tokens : TokenCounts, completion_tokens : TokenCounts,
     total_tokens : TotalCounts]
Replies == [choices : {1, 2}, usage : Usages \cup {NoUsage}]

\* Usage(**u): the three fields as given.
Usage(u) ==
    [present |-> TRUE, prompt_tokens |-> u.prompt_tokens,
     completion_tokens |-> u.completion_tokens, total_tokens |-> u.total_tokens]

\* ChatCompletion(**response): the choices and the usage of the response.
ChatCompletion(r) ==
    [returned |-> TRUE, choices |-> r.choices,
     usage |-> IF r.usage.present THEN Usage(r.usage) ELSE NoUsage]

InitUsage ==
    /\ mode \in Modes
    /\ pair = NoPair
    /\ client = "open"
    /\ un = NoUnary
    /\ resp = NoResp
    /\ body = <<>>
    /\ eof = FALSE
    /\ st = NoStream
    /\ cls = NoCls
    /\ args = NetworkArgs
    /\ sock = "missing"
    /\ tr = TransportInit(mode, args, sock)
    /\ wire = NoWire
    /\ \E r \in Replies :
          rq = [NoRq EXCEPT !.op = "chat.completions.create", !.reply = r]

\* ChatCompletions._create: the response of transport.post becomes the result.
ChatCreate ==
    /\ rq.op = "chat.completions.create"
    /\ ~rq.result.returned
    /\ rq' = [rq EXCEPT !.done = TRUE, !.call = Post("/v1/chat/completions"),
                        !.result = ChatCompletion(rq.reply)]
    /\ UNCHANGED <<mode, client, un, resp, body, eof, st, cls, args, sock, tr, wire, pair>>

SpecUsage == InitUsage /\ [][ChatCreate]_vars

----------------------------------------------------------------------------
(* Vocabulary of the properties *)

\* The category the error classifier is specified to give a status.
StatusCategory(s) ==
    IF s = 401 THEN "MLXRAuthenticationError"
    ELSE IF s = 403 THEN "MLXRPermissionError"
    ELSE IF s = 404 THEN "MLXRNotFoundError"
    ELSE IF s = 422 THEN "MLXRValidationError"
    ELSE IF s = 429 THEN "MLXRRateLimitError"
    ELSE IF s >= 500 THEN "MLXRServerError"
    ELSE IF s >= 400 THEN "MLXRAPIError"
    ELSE "none"

\* The error types of the SDK's own family (exceptions.py).
SdkErrors ==
    {"MLXRConnectionError", "MLXRTimeoutError", "MLXRAPIError", "MLXRAuthenticationError",
     "MLXRPermissionError", "MLXRNotFoundError", "MLXRRateLimitError", "MLXRServerError",
     "MLXRValidationError", "MLXRStreamError"}

\* The body lines the events of evs came from, and their being in body order.
EventLines(evs) == {evs[j].n : j \in 1..Len(evs)}
InOrder(evs) == \A j \in 1..(Len(evs) - 1) : evs[j].n < evs[j + 1].n

\* The consumer has iterated the stream of a non-error response to its end
\* (normal or exceptional) with no network fault and the client open.
Iterated ==
    /\ st.gen = "finished"
    /\ st.consumer = "iterating"
    /\ client = "open"
    /\ resp.status # NoStatus
    /\ resp.status < 400
    /\ st.outcome.type \notin {"MLXRTimeoutError", "MLXRConnectionError"}

IsSentinel(line) == Strip(line) = "data: [DONE]"
SentinelAt == {i \in 1..Len(body) : IsSentinel(body[i])}
FirstSentinel == CHOOSE i \in SentinelAt : \A j \in SentinelAt : i <= j

\* A marker-prefixed line whose payload is well-formed JSON.
GoodMarked(line) == StartsWithData(Strip(line)) /\ JsonLoadsOk(AfterData(Strip(line)))

\* A line of a newline-delimited body: blank, one valid JSON object, or malformed.
NdBlank(line) == Strip(line) = ""
NdValid(line) == JsonLoadsOk(Strip(line))
MalformedAt == {i \in 1..Len(body) : ~NdBlank(body[i]) /\ ~NdValid(body[i])}
FirstMalformed == CHOOSE i \in MalformedAt : \A j \in MalformedAt : i <= j

\* A step that completes a next() of the consumer.
Stepped ==
    \/ st.gen = "running" /\ st'.gen # "running"
    \/ st.gen = "created" /\ st'.gen # "created" /\ st'.consumer = "iterating"

----------------------------------------------------------------------------
(* Properties *)

\* C1: for a body that contains the sentinel, a stream iterated to its end
\* has yielded exactly the well-formed payloads of the marker-prefixed lines
\* before the first sentinel, in body order, and has ended normally.
C1_EventStreamExact ==
    (Iterated /\ SentinelAt # {}) =>
        /\ st.outcome = StopIteration
        /\ InOrder(st.events)
        /\ EventLines(st.events) = {i \in 1..(FirstSentinel - 1) : GoodMarked(body[i])}

\* C2: for a newline-delimited body, a stream iterated to its end has yielded
\* one event per valid line, in body order, up to the first malformed line,
\* where it raised MLXRStreamError; with no malformed line it ended normally
\* after every valid line.
C2_NewlineDelimitedExact ==
    Iterated =>
        /\ InOrder(st.events)
        /\ IF MalformedAt # {}
           THEN /\ st.outcome.type = "MLXRStreamError"
                /\ EventLines(st.events) = {i \in 1..(FirstMalformed - 1) : NdValid(body[i])}
           ELSE /\ st.outcome = StopIteration
                /\ EventLines(st.events) = {i \in 1..Len(body) : NdValid(body[i])}

\* C3: raise_for_status gives every status exactly the outcome of the table:
\* 401, 403, 404, 422, 429 their own category, every status >= 500 Server,
\* every other status >= 400 the generic API error, and no error below 400.
C3_ClassifierTable ==
    cls.done =>
        /\ cls.status < 400 => cls.result = NoRaise
        /\ cls.status >= 400 =>
              /\ cls.result.kind = "error"
              /\ cls.result.type = StatusCategory(cls.status)
              /\ cls.result.message = cls.message
        /\ cls.status \in {500, 599} => cls.result.type = "MLXRServerError"
        /\ cls.status \in {400, 418, 499} => cls.result.type = "MLXRAPIError"

\* C3 witness: status 599 has been classified as a server error.
C3_Witness ==
    cls.done /\ cls.status = 599 /\ cls.result.type = "MLXRServerError"

\* C4: a streaming call whose opening response has status >= 400 ends with
\* the classified error of that status and no event yielded.
C4_StatusErrorAtomic ==
    (st.gen = "finished" /\ st.consumer = "iterating" /\ resp.status >= 400) =>
        /\ st.events = <<>>
        /\ st.outcome.kind = "error"
        /\ st.outcome.type = StatusCategory(resp.status)

\* C5: a unary call answered with a status outside 200-299 raises an error of
\* the SDK's family, and a value is returned only for a status in 200-299.
C5_NonSuccessRaises ==
    (un.done /\ un.fault = "none" /\ un.sent = 1) =>
        /\ un.status \notin 200..299 =>
              un.outcome.kind = "error" /\ un.outcome.type \in SdkErrors
        /\ un.outcome.kind = "value" => un.status \in 200..299

\* C6: once the consumer has stopped iterating a stream (left the loop or
\* closed the sequence), the open response body is released.
C6_AbandonReleases ==
    st.consumer \in {"left", "closed"} => ~st.respOpen

\* C7: after close() of the client, a next() on a stream raises an error and
\* yields no further event.
C7_ClosedClientFailsStream ==
    [][(client = "closed" /\ Stepped) =>
          (st'.outcome.kind = "error" /\ st'.events = st.events)]_vars

\* C8: one logical operation issues at most one request, and a fault that
\* interrupts it is raised to the caller after that single request.
C8_AtMostOneRequest ==
    /\ un.sent <= 1
    /\ st.sent <= 1
    /\ (un.done /\ un.fault # "none") => (un.sent = 1 /\ un.outcome.kind = "error")

\* C8 witness: a unary call of the blocking transport timed out after one request.
C8_Witness ==
    /\ mode = "blocking"
    /\ un.done
    /\ un.fault = "timeout"
    /\ un.sent = 1
    /\ un.outcome.type = "MLXRTimeoutError"

\* C9: in every state, for every input, the blocking and the cooperative
\* transport take the same step: the same unary result, the same outcome of
\* the opening response, and the same events, position and outcome of a
\* resumed stream.
C9_ModesAgree ==
    /\ st.gen = "none" =>
          \A status \in Statuses, b \in Bodies, f \in Faults \cup {"none"} :
              SyncRequest(client, status, b, f) = AsyncRequest(client, status, b, f)
    /\ st.gen = "created" =>
          \A status \in StreamStatuses, b \in Bodies, f \in Faults \cup {"none"} :
              SyncOpen(st, client, status, b, f) = AsyncOpen(st, client, status, b, f)
    /\ st.gen = "running" =>
          \A f \in {"none", "timeout", "http"} :
              SyncResume(st, client, body, eof, f) = AsyncResume(st, client, body, eof, f)

\* C9 witness: a cooperative stream has yielded an event, skipped a malformed
\* marker-prefixed line and is running again.
C9_Witness ==
    /\ mode = "cooperative"
    /\ st.gen = "running"
    /\ Len(st.events) = 1
    /\ Len(body) = 3
    /\ body[2] = "data: {oops"
    /\ st.pos = 1

\* C10: for a status >= 400 the opening response of a stream raises the same
\* error as a unary call answered with the same response: the same category,
\* message and attached body.
C10_SameErrorUnaryAndStream ==
    (st.gen = "finished" /\ st.consumer = "iterating" /\ resp.status >= 400) =>
        st.outcome = Request(mode, "open", resp.status, resp.body, "none").outcome

\* C11: the error a unary call raises for a response with status s >= 400
\* carries s as its status code, the message taken from the response, and
\* the parsed body whenever _request captured one, whatever its category.
C11_ErrorCarriesStatusBody ==
    (un.done /\ un.fault = "none" /\ un.sent = 1 /\ un.status >= 400
        /\ un.outcome.type \in SdkErrors) =>
        /\ un.outcome.status_code = un.status
        /\ un.outcome.message = SyncErrorInfo(LoadedResponse(un.status, un.body)).message
        /\ GetChainOk(un.body) => un.outcome.response = un.body

\* C12: every finished call has returned a value (or ended its sequence) or
\* raised an error of the SDK's family: a timeout MLXRTimeoutError, any
\* other fault MLXRConnectionError, and never an exception of another type.
C12_NoForeignException ==
    /\ un.done =>
          /\ un.outcome.kind \in {"value", "error"}
          /\ un.outcome.kind = "error" => un.outcome.type \in SdkErrors
          /\ un.fault = "timeout" => un.outcome.type = "MLXRTimeoutError"
          /\ un.fault \in {"connect", "http"} => un.outcome.type = "MLXRConnectionError"
    /\ (st.gen = "finished" /\ st.consumer = "iterating") =>
          /\ st.outcome.kind \in {"end", "error"}
          /\ st.outcome.kind = "error" => st.outcome.type \in SdkErrors

\* C13: constructing a client for a local socket raises MLXRConnectionError
\* when the path does not exist and MLXRPermissionError when it exists but
\* is not both readable and writable, and then there is no client and no
\* request; otherwise the client is ready. The check is not made again by a
\* call: no call raises the errors of the check.
C13_SocketCheckedAtConstruction ==
    /\ [][(tr.state = "new" /\ tr'.state # "new" /\ ~Truthy(args.base_url)) =>
             /\ ~PathExists(sock) =>
                   (tr'.state = "failed" /\ tr'.error.type = "MLXRConnectionError")
             /\ (PathExists(sock) /\ ~PathAccess(sock)) =>
                   (tr'.state = "failed" /\ tr'.error.type = "MLXRPermissionError")
             /\ PathAccess(sock) => (tr'.state = "ready" /\ tr'.target.transport = "uds")]_vars
    /\ [](tr.state = "failed" =>
             (client = "none" /\ ~wire.seen /\ ~un.done /\ st.gen = "none"))
    /\ []((un.done /\ tr.target.transport = "uds") =>
             /\ un.outcome.type # "MLXRPermissionError" \/ un.status = 403
             /\ un.outcome.message # "Socket not found")

\* C13 witness: the cooperative constructor has raised MLXRPermissionError for
\* a socket that is readable but not writable.
C13_Witness ==
    /\ mode = "cooperative"
    /\ sock = "read_only"
    /\ tr.state = "failed"
    /\ tr.error.type = "MLXRPermissionError"

\* C14: the error the constructor raises for a socket it may not read and
\* write is of another category than the error raised for an HTTP 403
\* response, and does not carry status code 403.
C14_SocketPermissionDistinct ==
    (tr.state = "failed" /\ tr.error.message = "Permission denied for socket") =>
        /\ tr.error.type # raise_for_status(403, "Forbidden", "None").type
        /\ tr.error.status_code # 403

\* The sequence a stream iterated to its end gives under event-stream framing
\* applied to every line of the body.
EventStreamResult ==
    /\ st.outcome = StopIteration
    /\ EventLines(st.events) =
          {i \in 1..(IF SentinelAt # {} THEN FirstSentinel - 1 ELSE Len(body)) :
              GoodMarked(body[i])}

\* The same under newline-delimited framing applied to every line of the body.
NewlineDelimitedResult ==
    IF MalformedAt # {}
    THEN /\ st.outcome.type = "MLXRStreamError"
         /\ EventLines(st.events) = {i \in 1..(FirstMalformed - 1) : NdValid(body[i])}
    ELSE /\ st.outcome = StopIteration
         /\ EventLines(st.events) = {i \in 1..Len(body) : NdValid(body[i])}

\* C15: one framing decodes a whole body, whatever its lines contain: a
\* stream iterated to its end has given the result of event-stream framing
\* or the result of newline-delimited framing.
C15_OneFramingPerStream ==
    Iterated => (InOrder(st.events) /\ (EventStreamResult \/ NewlineDelimitedResult))

\* C16: the request body of an operation omits every named parameter whose
\* value is its default and holds every other one with the value supplied.
C16_DefaultsOmitted ==
    rq.done =>
        \A k \in Optional(rq.op) :
            IF rq.params[k] = Default(k) THEN k \notin DOMAIN rq.data
            ELSE k \in DOMAIN rq.data /\ rq.data[k] = rq.params[k]

\* C17: every close() returns without an error and leaves the client closed,
\* whatever the state of the client and however often it has been closed; it
\* changes no call's result and no stream's state, and a closed client stays
\* closed.
C17_CloseIdempotent ==
    /\ [](tr.closes >= 1 => (client = "closed" /\ tr.closed = Returned("None")))
    /\ [][tr'.closes # tr.closes =>
             (tr'.closes = tr.closes + 1 /\ client' = "closed" /\ un' = un /\ st' = st
                 /\ tr'.target = tr.target)]_vars
    /\ [][client = "closed" => client' = "closed"]_vars

\* C17 witness: a cooperative client has been closed a second time after a
\* failed call, with a stream in progress.
C17_Witness ==
    /\ mode = "cooperative"
    /\ tr.closes >= 2
    /\ client = "closed"
    /\ st.gen = "running"
    /\ wire.seen

\* C18: a sequence that has ended or has been closed yields no event and
\* issues no request when it is iterated again, and stays ended; a new
\* sequence issues its own single request at its first next().
C18_ConsumedOnce ==
    /\ [][((st.gen = "finished" \/ st.consumer = "closed") /\ st'.gen # "none") =>
             /\ st'.events = st.events
             /\ st'.sent = st.sent
             /\ st'.gen \in {st.gen, "finished"}
             /\ st'.outcome = st.outcome
             /\ wire' = wire]_vars
    /\ [][(st.gen = "created" /\ Stepped /\ client = "open") =>
             (st.sent = 0 /\ st'.sent = 1 /\ wire'.seen)]_vars

\* C18 witness: a stream that yielded an event and was exhausted has been
\* iterated again.
C18_Witness ==
    /\ st.again
    /\ st.gen = "finished"
    /\ st.outcome = StopIteration
    /\ Len(st.events) >= 1
    /\ st.sent = 1

\* A credential / a base URL was given to the constructor.
CredentialConfigured == args.api_key # "None" /\ args.api_key # ""
BaseUrlSupplied == args.base_url # "None" /\ args.base_url # ""

\* C19: every request handed to the httpx client carries the header
\* Authorization: Bearer <api_key> when a credential was given to the
\* constructor, and no Authorization header when none was.
C19_BearerIffConfigured ==
    wire.seen =>
        IF CredentialConfigured
        THEN /\ "Authorization" \in DOMAIN wire.headers
             /\ wire.headers["Authorization"] = "Bearer " \o args.api_key
        ELSE "Authorization" \notin DOMAIN wire.headers

\* C19 witness: the request of a streaming call has gone out over the socket
\* with the credential sk-1.
C19_Witness ==
    /\ wire.seen
    /\ args.api_key = "sk-1"
    /\ st.sent = 1
    /\ tr.target.transport = "uds"
    /\ wire.headers["Authorization"] = "Bearer sk-1"

\* C20: a constructed client's target is the network at the base URL given,
\* or else the socket at the path given or the default path; every request
\* goes to that target, no step changes it, and a constructor that fails
\* leaves no client with another target.
C20_TargetFixed ==
    /\ [](tr.state = "ready" =>
             IF BaseUrlSupplied
             THEN tr.target = [transport |-> "http", base_url |-> args.base_url, uds |-> "None"]
             ELSE /\ tr.target.transport = "uds"
                  /\ tr.target.uds = IF args.socket_path = "None" THEN DEFAULT_SOCKET_PATH
                                     ELSE args.socket_path)
    /\ [](wire.seen => wire.target = tr.target)
    /\ [](tr.state = "failed" => (client = "none" /\ tr.target = NoTarget /\ ~BaseUrlSupplied))
    /\ [][tr.state # "new" => (tr'.state = tr.state /\ tr'.target = tr.target)]_vars

\* C20 witness: a call of a socket client has failed to connect after the
\* socket was removed, and its request went to the socket.
C20_Witness ==
    /\ tr.target.transport = "uds"
    /\ sock = "missing"
    /\ un.done
    /\ un.fault = "connect"
    /\ wire.seen
    /\ wire.target.transport = "uds"

\* The operations that take a stream flag, and the endpoint of each operation.
StreamingOps == {op \in Ops : "stream" \in Optional(op)}
Endpoint(op) ==
    IF op = "chat.completions.create" THEN "/v1/chat/completions"
    ELSE IF op = "completions.create" THEN "/v1/completions"
    ELSE IF op = "embeddings.create" THEN "/v1/embeddings"
    ELSE IF op = "ollama.generate" THEN "/api/generate"
    ELSE IF op = "ollama.chat" THEN "/api/chat"
    ELSE IF op = "ollama.embeddings" THEN "/api/embeddings"
    ELSE IF op = "ollama.pull" THEN "/api/pull"
    ELSE "/api/create"

\* C21: an operation with a stream flag calls transport.stream exactly when
\* the flag is True and transport.post otherwise, on the operation's one
\* endpoint, and the body's stream field is the flag; the embeddings
\* operations call transport.post whatever their **kwargs hold.
C21_StreamFlagSelectsPath ==
    rq.done =>
        /\ rq.call.endpoint = Endpoint(rq.op)
        /\ rq.op \in StreamingOps =>
              /\ rq.call.transport = "stream" <=> rq.params["stream"] = "True"
              /\ rq.call.transport = "post" <=> rq.params["stream"] = "False"
              /\ rq.data["stream"] = rq.params["stream"]
        /\ rq.op \notin StreamingOps => rq.call.transport = "post"

\* C21 witness: the embeddings operation of dialect A, called with
\* stream=True among its **kwargs, has posted.
C21_Witness ==
    /\ rq.done
    /\ rq.op = "embeddings.create"
    /\ "stream" \in DOMAIN rq.kwargs
    /\ rq.data["stream"] = "True"
    /\ rq.call = [transport |-> "post", endpoint |-> "/v1/embeddings"]

\* The message specified for an error body: its error.message when the body
\* is a JSON object that has one, else the raw text of the response.
ExpectedMessage(b) == IF b = "obj_msg" THEN "error.message" ELSE "response.text"

\* C22: the error raised for a response with status >= 400, by a unary call
\* or by the first step of a stream, has the body's error.message as its
\* message when the body has one, and the raw response text otherwise.
C22_MessageFromBody ==
    /\ (un.done /\ un.fault = "none" /\ un.sent = 1 /\ un.status >= 400) =>
          (un.outcome.kind = "error" /\ un.outcome.message = ExpectedMessage(un.body))
    /\ (st.gen = "finished" /\ st.consumer = "iterating" /\ resp.status >= 400) =>
          (st.outcome.kind = "error" /\ st.outcome.message = ExpectedMessage(resp.body))

\* C23: a streamed generate whose body is n generate payloads, iterated to
\* its end, has given n chunks, the j-th built from the j-th line, and an
\* optional field of a chunk is set exactly when its own payload carries it,
\* with the payload's value.
C23_GenerateChunks ==
    (Iterated /\ st.via = "adapter" /\ \A i \in 1..Len(body) : body[i] \in GenLines) =>
        LET chunks == GenerateStream(st.events) IN
        /\ Len(chunks) = Len(body)
        /\ \A j \in 1..Len(chunks) :
              /\ chunks[j].n = j
              /\ chunks[j].chunk.ok
              /\ \A k \in GenerateOptional :
                    k \in DOMAIN chunks[j].chunk.fields <=> k \in DOMAIN JsonLoads(body[j])
              /\ \A k \in DOMAIN chunks[j].chunk.fields :
                    chunks[j].chunk.fields[k] = JsonLoads(body[j])[k]

\* C23 witness: two payloads with done false and a final one with durations
\* have given three chunks, of which only the third has a duration.
C23_Witness ==
    /\ Iterated
    /\ st.via = "adapter"
    /\ body = <<GenMore, GenMore, GenDone>>
    /\ Len(GenerateStream(st.events)) = 3
    /\ "total_duration" \in DOMAIN GenerateStream(st.events)[3].chunk.fields
    /\ "total_duration" \notin DOMAIN GenerateStream(st.events)[1].chunk.fields
    /\ "total_duration" \notin DOMAIN GenerateStream(st.events)[2].chunk.fields

\* A parsed payload that carries done: true.
IsDone(obj) == "done" \in DOMAIN obj /\ obj["done"] = TRUE

\* C27: an event whose payload carries done: true is the last event of its
\* stream.
C27_DoneIsFinal ==
    \A j \in 1..Len(st.events) : IsDone(st.events[j].obj) => j = Len(st.events)

\* C24: the usage of a returned chat completion has total_tokens equal to
\* prompt_tokens plus completion_tokens.
C24_UsageTotal ==
    (rq.result.returned /\ rq.result.usage.present) =>
        rq.result.usage.total_tokens =
            rq.result.usage.prompt_tokens + rq.result.usage.completion_tokens

\* C25: a stream that has raised an error, like one that has ended, has
\* left its with block: in the state in which the caller holds the error
\* the response is released and the generator is finished.
C25_ErrorReleases ==
    /\ st.outcome.kind \in {"error", "end"} => (st.gen = "finished" /\ ~st.respOpen)
    /\ st.gen = "finished" => ~st.respOpen

\* C25 witness: a stream has yielded an event from its open response and then
\* raised MLXRStreamError on a malformed line.
C25_Witness ==
    /\ st.gen = "finished"
    /\ st.consumer = "iterating"
    /\ st.outcome.type = "MLXRStreamError"
    /\ Len(st.events) >= 1
    /\ ~st.respOpen

\* C28: the error raise_for_status raises for a status >= 400 is an instance
\* of MLXRAPIError, whichever of the seven classes it is.
C28_ApiErrorFamily ==
    (cls.done /\ cls.status >= 400) =>
        (cls.result.kind = "error" /\ IsSubclass(cls.result.type, "MLXRAPIError"))

\* C29: in blocking mode the call of a streaming operation sends nothing and
\* opens nothing; a request is sent, and an error of the opening response is
\* raised, only by an iteration step of the sequence, so a sequence that is
\* never iterated ends with no request sent.
C29_LazyRequest ==
    /\ []((mode = "blocking" /\ st.gen = "created") =>
            (st.sent = 0 /\ ~st.respOpen /\ st.outcome = NoRaise))
    /\ [][(mode = "blocking" /\ st.gen = "none" /\ st'.gen # "none") =>
            (st'.gen = "created" /\ wire' = wire)]_vars
    /\ [][(mode = "blocking" /\ st.gen # "none" /\ st'.gen # "none" /\
           (st'.sent # st.sent \/ wire' # wire \/ st'.outcome # st.outcome)) =>
            (st.consumer = "iterating" /\ st.gen \in {"created", "running"})]_vars

\* C29 witness: a blocking stream was called without an error, and its first
\* iteration step sent the request and raised the connection error.
C29_Witness ==
    /\ mode = "blocking"
    /\ st.gen = "finished"
    /\ st.consumer = "iterating"
    /\ st.sent = 1
    /\ st.pos = 0
    /\ st.outcome.type = "MLXRConnectionError"

\* C30: a stream whose response is open, whose body is finite and whose
\* consumer keeps iterating comes to its end: the sequence ends or raises an
\* error of the SDK's family, and the response is released, whether or not
\* the body holds a sentinel line or a done: true payload.
C30_Terminates ==
    st.respOpen ~>
        (/\ st.gen = "finished"
         /\ ~st.respOpen
         /\ (st.outcome = StopIteration \/ st.outcome.type \in SdkErrors))

\* C30 witness: a body of valid lines with no sentinel and no done: true
\* payload has ended, and the sequence has ended after its last line.
C30_Witness ==
    /\ eof
    /\ st.gen = "finished"
    /\ st.outcome = StopIteration
    /\ ~st.respOpen
    /\ Len(body) >= 2
    /\ st.pos = Len(body)
    /\ Len(st.events) = Len(body)
    /\ \A i \in 1..Len(body) : body[i] \notin {"data: [DONE]", GenDone}

\* The lines of a body that the cooperative decoder yields an event for.
Yields(line) ==
    \/ GoodMarked(line)
    \/ ~StartsWithData(Strip(line)) /\ StartsWithBrace(Strip(line)) /\ JsonLoadsOk(Strip(line))

\* C26: with two streams in progress on one cooperative client and their
\* steps interleaved in any order, the events a consumer has received are
\* the events of the lines of its own response consumed so far, each once
\* and in the order of the lines.
C26_OwnEventsInOrder ==
    \A i \in Slots :
        LET s == pair[i].st
            own == pair[i].body
        IN  /\ InOrder(s.events)
            /\ s.pos <= Len(own)
            /\ EventLines(s.events) = {n \in 1..s.pos : Yields(own[n])}
            /\ \A j \in 1..Len(s.events) : s.events[j] = Event(s.events[j].n, Payload(own[s.events[j].n]))

\* C26 witness: both streams are in the middle of their bodies at once, the
\* first having yielded one event and the second two.
C26_Witness ==
    /\ pair[1].st.gen = "suspended"
    /\ pair[2].st.gen = "suspended"
    /\ Len(pair[1].st.events) = 1
    /\ Len(pair[2].st.events) = 2
    /\ ~pair[1].eof
    /\ ~pair[2].eof

====
